---- MODULE Spec2Model ----
(***************************************************************************)
(* caniusepypy/pypi.py: the queries against the package index.             *)
(*                                                                         *)
(* One behaviour is one call of one of the module's functions by a caller  *)
(* (just_name, all_projects, is_pure_python, all_pypy_projects), against a *)
(* remote index whose state is fixed in the initial state.  Strings are    *)
(* sequences of characters (one-character strings), so that lower(),       *)
(* startswith(), `in` and the regular expression are computed.             *)
(***************************************************************************)
EXTENDS Naturals, Sequences, FiniteSets

VARIABLES
    call,              \* the function the caller invokes
    supposed_name,     \* just_name's argument
    manual_overrides,  \* all_pypy_projects' argument: [given, table]
    pypi,              \* the remote index: HTTP response, browse, releases, ...
    pc,                \* position of the calling thread
    executor,          \* the ThreadPoolExecutor of all_pypy_projects
    classifiers,       \* what pypy_classifiers() yields, in order
    next,              \* index of the classifier the for loop is at
    session,           \* task -> the pypi_client() session of that task
    releases,          \* is_pure_python's local
    projects,          \* all_pypy_projects' local
    loaded,            \* whether overrides() has read the bundled overrides.json
    log,               \* records emitted on logger 'ciu'
    result,            \* what the caller observes
    round,             \* 1: first call, 2: the call repeated
    previous           \* the first call's result, once the call is repeated

vars == <<call, supposed_name, manual_overrides, pypi, pc, executor, classifiers,
          next, session, releases, projects, loaded, log, result, round, previous>>

\* ------------------------------------------------------------------ bounds
MaxLen == 3        \* length of just_name's argument
MaxDownloads == 2  \* artifacts release_urls returns for one version
MaxCpu == 2        \* multiprocessing.cpu_count()

\* ----------------------------------------------------------------- strings
\* The ASCII letters and digits (the part of \w, lower() and the code points
\* that the strings here use).
UpperAlphabet ==
    <<"A", "B", "C", "D", "E", "F", "G", "H", "I", "J", "K", "L", "M",
      "N", "O", "P", "Q", "R", "S", "T", "U", "V", "W", "X", "Y", "Z">>
LowerAlphabet ==
    <<"a", "b", "c", "d", "e", "f", "g", "h", "i", "j", "k", "l", "m",
      "n", "o", "p", "q", "r", "s", "t", "u", "v", "w", "x", "y", "z">>
UpperLetters == {UpperAlphabet[i] : i \in 1..Len(UpperAlphabet)}
LowerLetters == {LowerAlphabet[i] : i \in 1..Len(LowerAlphabet)}
Digits == {"0", "1", "2", "3", "4", "5", "6", "7", "8", "9"}

IndexIn(alphabet, c) == CHOOSE i \in 1..Len(alphabet) : alphabet[i] = c

\* str.lower(), per character
lower_char(c) ==
    IF c \in UpperLetters THEN LowerAlphabet[IndexIn(UpperAlphabet, c)] ELSE c

lower(s) == [i \in 1..Len(s) |-> lower_char(s[i])]

\* All sequences over S of length at most n
RECURSIVE SeqsUpTo(_, _)
SeqsUpTo(S, n) ==
    IF n = 0 THEN {<<>>}
    ELSE LET shorter == SeqsUpTo(S, n - 1)
         IN  shorter \cup {Append(s, x) : s \in {t \in shorter : Len(t) = n - 1}, x \in S}

\* code points of letters, for sorted(): upper case before lower case
ord(c) ==
    IF c \in UpperLetters THEN 64 + IndexIn(UpperAlphabet, c)
    ELSE IF c \in LowerLetters THEN 96 + IndexIn(LowerAlphabet, c)
    ELSE 0

RECURSIVE str_less(_, _)
str_less(s, t) ==
    IF t = <<>> THEN FALSE
    ELSE IF s = <<>> THEN TRUE
    ELSE IF ord(Head(s)) # ord(Head(t)) THEN ord(Head(s)) < ord(Head(t))
    ELSE str_less(Tail(s), Tail(t))

RECURSIVE sorted(_)
sorted(S) ==
    IF S = {} THEN <<>>
    ELSE LET least == CHOOSE x \in S : \A y \in S \ {x} : str_less(x, y)
         IN  <<least>> \o sorted(S \ {least})

\* ---------------------------------------------------------------- outcomes
NoOutcome == [kind |-> "none", val |-> "none"]
Return(v) == [kind |-> "return", val |-> v]
Raise(e) == [kind |-> "raise", val |-> e]

\* ------------------------------------------------------------- just_name
\* the class [\w.-]
PROJECT_NAME_class(c) ==
    c \in UpperLetters \cup LowerLetters \cup Digits \cup {"_", ".", "-"}

\* the greedy + from position i: the index of the last character consumed
RECURSIVE PROJECT_NAME_scan(_, _)
PROJECT_NAME_scan(s, i) ==
    IF i <= Len(s) /\ PROJECT_NAME_class(s[i])
    THEN PROJECT_NAME_scan(s, i + 1)
    ELSE i - 1

\* a faulty variant: PROJECT_NAME.search(s), the first run anywhere in s
PROJECT_NAME_search(s) ==
    LET starts == {i \in 1..Len(s) : PROJECT_NAME_class(s[i])}
    IN  IF starts = {} THEN [none |-> TRUE, group0 |-> <<>>]
        ELSE LET b == CHOOSE i \in starts : \A j \in starts : i <= j
             IN  [none |-> FALSE, group0 |-> SubSeq(s, b, PROJECT_NAME_scan(s, b))]

\* PROJECT_NAME.match(s): the match anchored at the start, or None
PROJECT_NAME_match(s) ==
    LET n == PROJECT_NAME_scan(s, 1)
    IN  IF n = 0 THEN [none |-> TRUE, group0 |-> <<>>]
        ELSE [none |-> FALSE, group0 |-> SubSeq(s, 1, n)]

just_name(s) ==
    LET m == PROJECT_NAME_match(s)
    IN  IF m.none THEN Raise("AttributeError")  \* None.group
        ELSE Return(lower(m.group0))

\* ------------------------------------------------------- pypy_classifiers
\* A classifier line is a sequence of text fragments; the base classifier ends
\* on a fragment boundary.
base_classifier ==
    <<"Programming Language :: Python :: ", "Implementation :: ", "PyPy">>

\* a faulty variant: classifier == base_classifier
startswith_exact(s, prefix) == s = prefix

startswith(s, prefix) ==
    Len(s) >= Len(prefix) /\ SubSeq(s, 1, Len(prefix)) = prefix

\* the generator expression of pypy_classifiers
pypy_classifiers_filter(lines) ==
    SelectSeq(lines, LAMBDA classifier : startswith(classifier, base_classifier))

\* the status check of pypy_classifiers
pypy_classifiers(response) ==
    IF response.status # 200 THEN Raise("ValueError")
    ELSE Return(pypy_classifiers_filter(response.lines))

\* ------------------------------------------------------------ pypi_client
\* what a remote call, or the close, can end with
RemoteErrors == {"ExpatError", "Fault", "ProtocolError"}
CallOutcomes == {"ok"} \cup RemoteErrors

\* a faulty variant: except xml.parsers.expat.ExpatError alone
close_suppressed_expat == {"ExpatError"}

\* the except clause around client('close')()
close_suppressed == {"ExpatError", "Fault"}

NoSession ==
    [st |-> "none", thread |-> "none", events |-> <<>>, block |-> NoOutcome,
     close |-> "none", seen |-> NoOutcome]

\* with pypi_client() as client: on `thread`
pypi_client_enter(thread) ==
    [NoSession EXCEPT !.st = "open", !.thread = thread, !.events = << <<"ServerProxy">> >>]

\* a remote call on the session's client, and how the block ends (if it does)
pypi_client_call(s, method, outcome) ==
    [s EXCEPT !.events = Append(@, method), !.block = outcome]

\* the finally clause: the close, whose outcome is c, and what the caller sees
pypi_client_exit(s, c) ==
    [s EXCEPT !.st = "exited",
              !.events = Append(@, <<"close">>),
              !.close = c,
              !.seen = IF c = "ok" \/ c \in close_suppressed THEN s.block
                       ELSE Raise(c)]

\* --------------------------------------------------------- is_pure_python
contains(s, sub) ==
    \E i \in 1..(Len(s) + 1) :
        i + Len(sub) - 1 <= Len(s) /\ SubSeq(s, i, i + Len(sub) - 1) = sub

\* the condition of the for loop's if
is_universal_wheel(download) ==
    /\ download.packagetype = "bdist_wheel"
    /\ \/ contains(download.url, <<"py2", ".py3", "-none-any">>)
       \/ contains(download.url, <<"py2", ".none-any">>)

\* the for loop over downloads
RECURSIVE any_universal_wheel(_)
any_universal_wheel(downloads) ==
    IF downloads = <<>> THEN FALSE
    ELSE IF is_universal_wheel(Head(downloads)) THEN TRUE
    ELSE any_universal_wheel(Tail(downloads))

\* a faulty variant: releases[0]
latest_release_first(rs) == rs[1]

\* releases[-1]
latest_release(rs) == rs[Len(rs)]

\* ------------------------------------------------------ all_pypy_projects
max(a, b) == IF a >= b THEN a ELSE b

\* CPU_COUNT, from cpu_count() = n (0: NotImplementedError)
CPU_COUNT(n) == IF n = 0 THEN 2 ELSE max(2, n)

\* a faulty variant: the try block without its except clause
projects_matching_classifier_no_except(r) ==
    IF r.err = "ok" THEN Return({lower(name) : name \in r.names})
    ELSE Raise(r.err)

\* the result of projects_matching_classifier's try block, from browse's outcome
projects_matching_classifier_block(r) ==
    IF r.err = "ok" THEN Return({lower(name) : name \in r.names})
    ELSE IF r.err = "ExpatError" THEN Return({})
    ELSE Raise(r.err)

\* a faulty variant: if not manual_overrides
overrides_load_falsy(mo) == ~mo.given \/ DOMAIN mo.table = {}

\* if manual_overrides is None
overrides_load(mo) == ~mo.given

\* a faulty variant: the intersection taken after projects.update(manual_overrides)
stale_overrides_all(projs, table) == (projs \cup DOMAIN table) \cap DOMAIN table

\* projects.intersection(manual_overrides)
stale_overrides(projs, table) == projs \cap DOMAIN table

\* a faulty variant: projects.update(stale_overrides)
projects_update_stale(projs, table) == projs \cup (projs \cap DOMAIN table)

\* projects.update(manual_overrides)
projects_update_overrides(projs, table) == projs \cup DOMAIN table

\* the records logged for the overrides, lines 125 to 135
overrides_log(projs, table) ==
    LET keys == sorted(DOMAIN table)
        stale == stale_overrides(projs, table)
    IN  <<[level |-> "INFO", msg |-> <<"Adding overrides", Cardinality(DOMAIN table)>>]>>
        \o [i \in 1..Len(keys) |->
               [level |-> "INFO", msg |-> <<keys[i], table[keys[i]]>>]]
        \o (IF stale # {}
            THEN <<[level |-> "WARNING", msg |-> <<"Stale overrides", stale>>]>>
            ELSE <<>>)

\* ------------------------------------------------------------- the inputs
\* Sequences over S without repetition
RECURSIVE Arrangements(_)
Arrangements(S) ==
    {<<>>} \cup UNION {{<<x>> \o t : t \in Arrangements(S \ {x})} : x \in S}

Foo == <<"F", "o", "o">>
foo == <<"f", "o", "o">>
bar == <<"b", "a", "r">>
baz == <<"b", "a", "z">>

\* just_name's arguments: every short string over NameAlphabet, and two requirements
NameAlphabet == {"F", "o", "1", "_", ".", "-", ">", " "}
Requirements ==
    { <<"F", "o", "o", ">", "=", "1", ".", "2", ".", "3">>,
      <<"M", "y", "-", "P", "a", "c", "k", "a", "g", "e", "[", "e", "x", "t", "r", "a", "]">> }
SupposedNames == SeqsUpTo(NameAlphabet, MaxLen) \cup Requirements

\* the lines the list_classifiers response is made of
PyPyLine == base_classifier
PyPyXYZLine == <<"Programming Language :: Python :: ", "Implementation :: ", "PyPy", "XYZ">>
CPythonLine == <<"Programming Language :: Python :: ", "Implementation :: ", "CPython">>
TopicLine == <<"Topic :: ", "PyPy">>
ClassifierLines == {PyPyLine, PyPyXYZLine, CPythonLine, TopicLine}
StatusCodes == {200, 204}

\* what browse([classifier]) gives: an error, or the names of the result rows
BrowseResults ==
    {[err |-> "ok", names |-> ns] : ns \in SUBSET {Foo, bar}}
    \cup {[err |-> e, names |-> {}] : e \in {"ExpatError", "ProtocolError"}}

\* browse for a classifier outside the PyPy family
OtherBrowse == [err |-> "ok", names |-> {baz}]

Browse(classifier) ==
    IF classifier \in DOMAIN pypi.browse THEN pypi.browse[classifier] ELSE OtherBrowse

\* the override tables a caller passes, and the bundled overrides.json
NoteOf(key) == IF key = foo THEN "note" ELSE ""
OverrideTables == {[k \in keys |-> NoteOf(k)] : keys \in SUBSET {foo, Foo}}
NotGiven == [given |-> FALSE, table |-> [k \in {} |-> ""]]
overrides == [k \in {bar} |-> "note"]

\* release artifacts
UniversalWheel ==
    [packagetype |-> "bdist_wheel", url |-> <<"pkg-1.0-", "py2", ".py3", "-none-any", ".whl">>]
Py2Wheel ==
    [packagetype |-> "bdist_wheel", url |-> <<"pkg-1.0-", "py2", ".none-any", ".whl">>]
Py3Wheel ==
    [packagetype |-> "bdist_wheel", url |-> <<"pkg-1.0-", "py3", "-none-any", ".whl">>]
UniversalSdist ==
    [packagetype |-> "sdist", url |-> <<"pkg-1.0-", "py2", ".py3", "-none-any", ".tar.gz">>]
Downloads == {UniversalWheel, Py2Wheel, Py3Wheel, UniversalSdist}
Versions == {"1.0", "2.0"}

DefaultPypi ==
    [status |-> 200, lines |-> <<>>,
     browse |-> [c \in {PyPyLine, PyPyXYZLine} |-> [err |-> "ok", names |-> {}]],
     package_releases |-> <<>>,
     release_urls |-> [v \in Versions |-> <<>>],
     list_packages |-> {}]

\* ------------------------------------------------------------------ state
Tasks == 1..Cardinality(ClassifierLines)
NoExecutor == [max_workers |-> 0, work_items |-> {}, st |-> "none"]

Idle ==
    /\ pc = "start"
    /\ executor = NoExecutor
    /\ classifiers = <<>>
    /\ next = 1
    /\ session = [t \in Tasks |-> NoSession]
    /\ releases = <<>>
    /\ projects = {}
    /\ loaded = FALSE
    /\ log = <<>>
    /\ result = NoOutcome
    /\ round = 1
    /\ previous = NoOutcome

InitJustName ==
    /\ call = "just_name"
    /\ supposed_name \in SupposedNames
    /\ manual_overrides = NotGiven
    /\ pypi = DefaultPypi

InitAllProjects ==
    /\ call = "all_projects"
    /\ supposed_name = <<>>
    /\ manual_overrides = NotGiven
    /\ pypi \in {[DefaultPypi EXCEPT !.list_packages = ns] : ns \in SUBSET {Foo, foo, bar}}

InitIsPurePython ==
    /\ call = "is_pure_python"
    /\ supposed_name = <<>>
    /\ manual_overrides = NotGiven
    /\ pypi \in {[DefaultPypi EXCEPT !.package_releases = rs, !.release_urls = urls] :
                    rs \in Arrangements(Versions),
                    urls \in [Versions -> SeqsUpTo(Downloads, MaxDownloads)]}

InitAllPypyProjects ==
    /\ call = "all_pypy_projects"
    /\ supposed_name = <<>>
    /\ manual_overrides \in {NotGiven} \cup {[given |-> TRUE, table |-> t] : t \in OverrideTables}
    /\ pypi \in {[DefaultPypi EXCEPT !.status = st, !.lines = ls, !.browse = br] :
                    st \in StatusCodes,
                    ls \in Arrangements(ClassifierLines),
                    br \in [{PyPyLine, PyPyXYZLine} -> BrowseResults]}

Init ==
    /\ Idle
    /\ \/ InitJustName
       \/ InitAllProjects
       \/ InitIsPurePython
       \/ InitAllPypyProjects

info(msg) == [level |-> "INFO", msg |-> msg]

\* ---------------------------------------------------------------- actions
\* just_name(supposed_name)
JustName ==
    /\ call = "just_name" /\ pc = "start"
    /\ result' = just_name(supposed_name)
    /\ pc' = "done"
    /\ UNCHANGED <<call, supposed_name, manual_overrides, pypi, executor, classifiers,
                   next, session, releases, projects, loaded, log, round, previous>>

\* all_projects: the with statement is entered
AP_Enter ==
    /\ call = "all_projects" /\ pc = "start"
    /\ session' = [session EXCEPT ![next] = pypi_client_enter("MainThread")]
    /\ log' = Append(log, info(<<"Fetching all project names from PyPI">>))
    /\ pc' = "list_packages"
    /\ UNCHANGED <<call, supposed_name, manual_overrides, pypi, executor, classifiers,
                   next, releases, projects, loaded, result, round, previous>>

\* all_projects: client.list_packages() and the frozenset
AP_ListPackages ==
    /\ pc = "list_packages"
    /\ \E o \in CallOutcomes :
         session' = [session EXCEPT ![next] =
            pypi_client_call(@, <<"list_packages">>,
                IF o = "ok" THEN Return({lower(name) : name \in pypi.list_packages})
                ELSE Raise(o))]
    /\ pc' = "exit"
    /\ UNCHANGED <<call, supposed_name, manual_overrides, pypi, executor, classifiers,
                   next, releases, projects, loaded, log, result, round, previous>>

\* is_pure_python: the with statement is entered
IPP_Enter ==
    /\ call = "is_pure_python" /\ pc = "start"
    /\ session' = [session EXCEPT ![next] = pypi_client_enter("MainThread")]
    /\ pc' = "package_releases"
    /\ UNCHANGED <<call, supposed_name, manual_overrides, pypi, executor, classifiers,
                   next, releases, projects, loaded, log, result, round, previous>>

\* is_pure_python: client.package_releases(dependency) and the emptiness test
IPP_PackageReleases ==
    /\ pc = "package_releases"
    /\ \E o \in CallOutcomes :
         IF o # "ok"
         THEN /\ session' = [session EXCEPT ![next] =
                     pypi_client_call(@, <<"package_releases">>, Raise(o))]
              /\ releases' = releases
              /\ pc' = "exit"
         ELSE /\ releases' = pypi.package_releases
              /\ IF pypi.package_releases = <<>>
                 THEN /\ session' = [session EXCEPT ![next] =
                             pypi_client_call(@, <<"package_releases">>, Return(FALSE))]
                      /\ pc' = "exit"
                 ELSE /\ session' = [session EXCEPT ![next] =
                             pypi_client_call(@, <<"package_releases">>, NoOutcome)]
                      /\ pc' = "release_urls"
    /\ UNCHANGED <<call, supposed_name, manual_overrides, pypi, executor, classifiers,
                   next, projects, loaded, log, result, round, previous>>

\* is_pure_python: client.release_urls(dependency, latest) and the for loop
IPP_ReleaseUrls ==
    /\ pc = "release_urls"
    /\ LET latest == latest_release(releases)
       IN  \E o \in CallOutcomes :
             session' = [session EXCEPT ![next] =
                pypi_client_call(@, <<"release_urls", latest>>,
                    IF o = "ok" THEN Return(any_universal_wheel(pypi.release_urls[latest]))
                    ELSE Raise(o))]
    /\ pc' = "exit"
    /\ UNCHANGED <<call, supposed_name, manual_overrides, pypi, executor, classifiers,
                   next, releases, projects, loaded, log, result, round, previous>>

\* pypi_client: the finally clause, when the with block is left; the function
\* that used the session then returns or raises what the block did, or what the
\* close raised
PypiClientExit ==
    /\ pc = "exit"
    /\ \E c \in CallOutcomes :
         LET s == pypi_client_exit(session[next], c)
         IN  /\ session' = [session EXCEPT ![next] = s]
             /\ IF call = "all_pypy_projects"
                THEN pc' = "collect" /\ result' = result
                ELSE pc' = "done" /\ result' = s.seen
    /\ UNCHANGED <<call, supposed_name, manual_overrides, pypi, executor, classifiers,
                   next, releases, projects, loaded, log, round, previous>>

\* all_pypy_projects: the executor is made and its with statement entered
APP_Executor ==
    /\ call = "all_pypy_projects" /\ pc = "start"
    /\ \E n \in 0..MaxCpu :
         executor' = [max_workers |-> CPU_COUNT(n), work_items |-> {}, st |-> "running"]
    /\ pc' = "classifiers"
    /\ UNCHANGED <<call, supposed_name, manual_overrides, pypi, classifiers, next,
                   session, releases, projects, loaded, log, result, round, previous>>

\* all_pypy_projects: pypy_classifiers() is called, as map's argument; when it
\* raises, the executor's with statement is left and the error reaches the caller
APP_Classifiers ==
    /\ pc = "classifiers"
    /\ LET r == pypy_classifiers(pypi)
       IN  IF r.kind = "raise"
           THEN /\ result' = r
                /\ executor' = [executor EXCEPT !.st = "shutdown"]
                /\ classifiers' = classifiers
                /\ pc' = "done"
           ELSE /\ classifiers' = r.val
                /\ pc' = "loop"
                /\ UNCHANGED <<result, executor>>
    /\ UNCHANGED <<call, supposed_name, manual_overrides, pypi, next, session,
                   releases, projects, loaded, log, round, previous>>

\* the builtin map calls projects_matching_classifier(classifier) on the thread
\* of the for loop: the with statement is entered. (Python 3's lazy map; under
\* Python 2 map makes all the calls before the first update, in the same order,
\* on the same thread, with the same result.)
PMC_Enter ==
    /\ pc = "loop" /\ next <= Len(classifiers)
    /\ session' = [session EXCEPT ![next] = pypi_client_enter("MainThread")]
    /\ log' = Append(log, info(<<"Fetching project list for", classifiers[next]>>))
    /\ pc' = "browse"
    /\ UNCHANGED <<call, supposed_name, manual_overrides, pypi, executor, classifiers,
                   next, releases, projects, loaded, result, round, previous>>

\* projects_matching_classifier: client.browse([classifier]) and the try block
PMC_Browse ==
    /\ pc = "browse"
    /\ LET r == Browse(classifiers[next])
       IN  /\ session' = [session EXCEPT ![next] =
                  pypi_client_call(@, <<"browse", classifiers[next]>>,
                                   projects_matching_classifier_block(r))]
           /\ log' = IF r.err = "ExpatError"
                     THEN Append(log, info(<<"PyPI didn't return any results">>))
                     ELSE log
    /\ pc' = "exit"
    /\ UNCHANGED <<call, supposed_name, manual_overrides, pypi, executor, classifiers,
                   next, releases, projects, loaded, result, round, previous>>

\* the for loop: projects.update(result), or the task's error leaves the with
\* statement of the executor and all_pypy_projects
APP_Collect ==
    /\ pc = "collect"
    /\ LET seen == session[next].seen
       IN  IF seen.kind = "return"
           THEN /\ projects' = projects \cup seen.val
                /\ loaded' = loaded
                /\ next' = next + 1
                /\ pc' = "loop"
                /\ UNCHANGED <<result, executor>>
           ELSE /\ result' = seen
                /\ executor' = [executor EXCEPT !.st = "shutdown"]
                /\ pc' = "done"
                /\ UNCHANGED <<projects, loaded, next>>
    /\ UNCHANGED <<call, supposed_name, manual_overrides, pypi, classifiers, session,
                   releases, log, round, previous>>

\* all_pypy_projects after the loop: the executor is shut down, the overrides
\* are read unless given, logged and added
APP_Merge ==
    /\ pc = "loop" /\ next > Len(classifiers)
    /\ executor' = [executor EXCEPT !.st = "shutdown"]
    /\ loaded' = overrides_load(manual_overrides)
    /\ LET table == IF overrides_load(manual_overrides) THEN overrides
                    ELSE manual_overrides.table
       IN  /\ log' = log \o overrides_log(projects, table)
           /\ projects' = projects_update_overrides(projects, table)
           /\ result' = Return(projects_update_overrides(projects, table))
    /\ pc' = "done"
    /\ UNCHANGED <<call, supposed_name, manual_overrides, pypi, classifiers, next,
                   session, releases, round, previous>>

\* the caller calls all_pypy_projects a second time, the index unchanged
APP_Again ==
    /\ call = "all_pypy_projects" /\ pc = "done" /\ round = 1
    /\ previous' = result
    /\ round' = 2
    /\ pc' = "start"
    /\ executor' = NoExecutor
    /\ classifiers' = <<>>
    /\ next' = 1
    /\ session' = [t \in Tasks |-> NoSession]
    /\ projects' = {}
    /\ loaded' = FALSE
    /\ log' = <<>>
    /\ result' = NoOutcome
    /\ UNCHANGED <<call, supposed_name, manual_overrides, pypi, releases>>

Next ==
    \/ JustName
    \/ AP_Enter
    \/ AP_ListPackages
    \/ IPP_Enter
    \/ IPP_PackageReleases
    \/ IPP_ReleaseUrls
    \/ PypiClientExit
    \/ APP_Executor
    \/ APP_Classifiers
    \/ PMC_Enter
    \/ PMC_Browse
    \/ APP_Collect
    \/ APP_Merge
    \/ APP_Again

Spec == Init /\ [][Next]_vars

\* ------------------------------------------------------------ properties
SameOutcome(a, b) == a.kind = b.kind /\ (a.kind = "none" \/ a.val = b.val)

AllPypyReturned ==
    call = "all_pypy_projects" /\ pc = "done" /\ result.kind = "return"

\* the lines of the response that begin with the base classifier
HasBase(line) ==
    /\ Len(line) >= Len(base_classifier)
    /\ \A i \in 1..Len(base_classifier) : line[i] = base_classifier[i]
Discovered == {pypi.lines[i] : i \in {j \in 1..Len(pypi.lines) : HasBase(pypi.lines[j])}}

\* the names the browses of the discovered classifiers return, lowercased
BrowseDerived == {lower(name) : name \in UNION {Browse(c).names : c \in Discovered}}

\* the override table all_pypy_projects is to use
TableInUse == IF manual_overrides.given THEN manual_overrides.table ELSE overrides

Warnings == {i \in 1..Len(log) : log[i].level = "WARNING"}

BrowseEvents(t) ==
    {i \in 1..Len(session[t].events) : session[t].events[i][1] = "browse"}
CloseEvents(t) ==
    {i \in 1..Len(session[t].events) : session[t].events[i][1] = "close"}

\* C1: all_pypy_projects called with an empty override table returns exactly the
\* lowercased names of the union of the browse results of the discovered
\* classifiers, without reading the bundled overrides, and a second call against
\* the same index returns the same set.
C1_EmptyOverridesGiveBrowseUnion ==
    (AllPypyReturned /\ manual_overrides.given /\ DOMAIN manual_overrides.table = {})
    => /\ result.val = BrowseDerived
       /\ ~loaded
       /\ (round = 2 /\ previous.kind = "return") => result.val = previous.val

C1_Witness ==
    /\ AllPypyReturned /\ manual_overrides.given /\ DOMAIN manual_overrides.table = {}
    /\ round = 2 /\ previous.kind = "return"
    /\ Len(classifiers) = 2
    /\ \E c \in Discovered : Foo \in Browse(c).names
    /\ result.val = {foo, bar}

\* C2: every key of a supplied override table is in the returned set, also a key
\* no browse returns; overrides.json is read exactly when no table is supplied.
C2_OverrideKeysReturned ==
    AllPypyReturned
    => /\ manual_overrides.given => DOMAIN manual_overrides.table \subseteq result.val
       /\ loaded = ~manual_overrides.given

C2_Witness ==
    /\ AllPypyReturned /\ manual_overrides.given
    /\ BrowseDerived # {}
    /\ \E k \in DOMAIN manual_overrides.table : k \notin BrowseDerived /\ k \in result.val

\* C3: an override name already in the browse-derived set is named in a
\* WARNING record as stale, no WARNING record is emitted when no override is,
\* and the name is a member of the returned set (once, the result being a set).
C3_StaleOverridesWarned ==
    AllPypyReturned
    => LET stale == BrowseDerived \cap DOMAIN TableInUse
       IN  /\ stale # {} => /\ Cardinality(Warnings) = 1
                            /\ \A i \in Warnings : log[i].msg[2] = stale
           /\ stale = {} => Warnings = {}
           /\ \A name \in stale : Cardinality({p \in result.val : p = name}) = 1

C3_Witness ==
    /\ AllPypyReturned /\ manual_overrides.given
    /\ foo \in BrowseDerived /\ foo \in DOMAIN manual_overrides.table
    /\ \E i \in Warnings : foo \in log[i].msg[2]
    /\ foo \in result.val

\* C4: is_pure_python returns False when package_releases returns no release,
\* without asking for any release_urls; otherwise it asks for the artifacts of
\* the last release of the sequence only, and returns True exactly when one of
\* those is a bdist_wheel whose URL contains py2.py3-none-any or py2.none-any.
C4_PureFromLatestRelease ==
    (call = "is_pure_python" /\ pc = "done" /\ result.kind = "return")
    => LET rs == pypi.package_releases
           asked == {i \in 1..Len(session[1].events) :
                        session[1].events[i][1] = "release_urls"}
       IN  IF rs = <<>>
           THEN result.val = FALSE /\ asked = {}
           ELSE /\ Cardinality(asked) = 1
                /\ \A i \in asked : session[1].events[i][2] = rs[Len(rs)]
                /\ result.val =
                     (\E k \in 1..Len(pypi.release_urls[rs[Len(rs)]]) :
                        LET d == pypi.release_urls[rs[Len(rs)]][k]
                        IN  /\ d.packagetype = "bdist_wheel"
                            /\ \/ contains(d.url, <<"py2", ".py3", "-none-any">>)
                               \/ contains(d.url, <<"py2", ".none-any">>))

C4_Witness ==
    /\ call = "is_pure_python" /\ pc = "done"
    /\ Len(pypi.package_releases) = 2
    /\ pypi.release_urls[pypi.package_releases[1]] = <<UniversalSdist, Py3Wheel>>
    /\ pypi.release_urls[pypi.package_releases[2]] = <<Py3Wheel, Py2Wheel>>
    /\ SameOutcome(result, Return(TRUE))

\* C5: just_name returns the maximal leading run of word, dot and dash
\* characters, lowercased, when that run is not empty, and raises otherwise.
C5_JustNameLeadingRun ==
    (call = "just_name" /\ pc = "done")
    => LET s == supposed_name
           n == CHOOSE k \in 0..Len(s) :
                    /\ \A i \in 1..k : PROJECT_NAME_class(s[i])
                    /\ k = Len(s) \/ ~PROJECT_NAME_class(s[k + 1])
       IN  /\ n > 0 => /\ result.kind = "return"
                       /\ Len(result.val) = n
                       /\ \A i \in 1..n : result.val[i] = lower_char(s[i])
           /\ n = 0 => result.kind = "raise"
           /\ s = <<"F", "o", "o", ">", "=", "1", ".", "2", ".", "3">>
                => SameOutcome(result, Return(foo))
           /\ s = <<"M", "y", "-", "P", "a", "c", "k", "a", "g", "e", "[", "e", "x", "t", "r", "a", "]">>
                => SameOutcome(result,
                      Return(<<"m", "y", "-", "p", "a", "c", "k", "a", "g", "e">>))

C5_Witness ==
    /\ call = "just_name" /\ pc = "done"
    /\ supposed_name = <<"F", "o", "o", ">", "=", "1", ".", "2", ".", "3">>
    /\ SameOutcome(result, Return(foo))

\* C6: pypy_classifiers raises when the status is not 200, and then no
\* classifier is produced and all_pypy_projects opens no session; on status 200
\* it yields, in the order of the response, exactly the lines that start with
\* the base classifier.
C6_ClassifiersFiltered ==
    (call = "all_pypy_projects" /\ pc \notin {"start", "classifiers"})
    => IF pypi.status # 200
       THEN /\ pc = "done"
            /\ SameOutcome(result, Raise("ValueError"))
            /\ classifiers = <<>>
            /\ \A t \in Tasks : session[t].st = "none"
       ELSE LET at == {j \in 1..Len(pypi.lines) : HasBase(pypi.lines[j])}
            IN  /\ Len(classifiers) = Cardinality(at)
                /\ \E f \in [1..Len(classifiers) -> at] :
                     /\ \A a, b \in 1..Len(classifiers) : a < b => f[a] < f[b]
                     /\ \A a \in 1..Len(classifiers) : classifiers[a] = pypi.lines[f[a]]

C6_Witness ==
    /\ call = "all_pypy_projects" /\ pc = "loop"
    /\ pypi.status = 200
    /\ pypi.lines = <<TopicLine, PyPyXYZLine, CPythonLine, PyPyLine>>
    /\ classifiers = <<PyPyXYZLine, PyPyLine>>

\* C6, the failure: a response whose status is not 200 has been refused.
C6_RefusedWitness ==
    /\ call = "all_pypy_projects" /\ pc = "done"
    /\ pypi.status = 204 /\ Len(pypi.lines) = 4
    /\ SameOutcome(result, Raise("ValueError"))

\* C7: the browse calls run concurrently on the workers of the executor: every
\* browse in progress is a work item of the pool, run by a worker thread and
\* not by the thread of the for loop.
C7_BrowseRunsOnWorkerPool ==
    \A t \in Tasks :
        (call = "all_pypy_projects" /\ session[t].st = "open")
        => /\ t \in executor.work_items
           /\ session[t].thread # "MainThread"

\* What the code does instead: nothing is ever submitted to the executor, and
\* at most one browse is in progress at any time, each begun after the result
\* of the one before has been collected.
SequentialBrowse ==
    call = "all_pypy_projects"
    => /\ executor.work_items = {}
       /\ Cardinality({t \in Tasks : session[t].st = "open"}) <= 1
       /\ \A t \in Tasks : session[t].st = "open" => t = next
       /\ \A t \in Tasks : t > next => session[t].st = "none"

\* the override merge happens only after every browse result is collected
MergeAfterCollect ==
    AllPypyReturned
    => /\ next = Len(classifiers) + 1
       /\ \A t \in 1..Len(classifiers) : session[t].st = "exited"

\* C8, as stated: on every exit path of the with block one close is attempted,
\* after the block's last remote call, and whatever the close raises the
\* caller observes what the block returned or raised.
C8_CloseErrorsAllSuppressed ==
    \A t \in Tasks :
        session[t].st = "exited"
        => /\ Cardinality(CloseEvents(t)) = 1
           /\ CloseEvents(t) = {Len(session[t].events)}
           /\ SameOutcome(session[t].seen, session[t].block)

\* C8, amended: on every exit path of the with block one close is attempted,
\* after the block's last remote call; when the close succeeds or raises
\* ExpatError or Fault the caller observes what the block returned or raised,
\* and when the close raises anything else the caller observes that error. No
\* session is left open when the function that opened it has finished.
C8_CloseOnceExpatFaultSuppressed ==
    /\ \A t \in Tasks :
        session[t].st = "exited"
        => /\ Cardinality(CloseEvents(t)) = 1
           /\ CloseEvents(t) = {Len(session[t].events)}
           /\ session[t].block.kind \in {"return", "raise"}
           /\ IF session[t].close \in {"ok", "ExpatError", "Fault"}
              THEN SameOutcome(session[t].seen, session[t].block)
              ELSE SameOutcome(session[t].seen, Raise(session[t].close))
    /\ pc = "done" => \A t \in Tasks : session[t].st # "open"
    /\ (pc = "done" /\ call \in {"all_projects", "is_pure_python"})
       => session[1].st = "exited" /\ SameOutcome(result, session[1].seen)

C8_Witness ==
    /\ call = "is_pure_python" /\ pc = "done"
    /\ session[1].st = "exited"
    /\ session[1].block.kind = "raise" /\ session[1].block.val = "ProtocolError"
    /\ session[1].close = "Fault"
    /\ SameOutcome(result, Raise("ProtocolError"))

\* C9: each discovered classifier is browsed once, never again; a browse that
\* fails with ExpatError contributes the empty set and the aggregation goes on
\* to the remaining classifiers and returns a set; any other failure of a task
\* leaves all_pypy_projects as an exception and no set is returned.
C9_ExpatErrorIsEmptyOthersPropagate ==
    call = "all_pypy_projects"
    => /\ \A t \in Tasks : Cardinality(BrowseEvents(t)) <= 1
       /\ \A t \in Tasks :
            session[t].st = "exited"
            => /\ \A i \in BrowseEvents(t) : session[t].events[i][2] = classifiers[t]
               /\ Cardinality(BrowseEvents(t)) = 1
               /\ Browse(classifiers[t]).err = "ExpatError"
                    => SameOutcome(session[t].block, Return({}))
               /\ Browse(classifiers[t]).err \notin {"ok", "ExpatError"}
                    => session[t].seen.kind = "raise"
       /\ AllPypyReturned
            => /\ \A t \in 1..Len(classifiers) :
                    /\ session[t].st = "exited"
                    /\ session[t].seen.kind = "return"
                    /\ session[t].seen.val \subseteq result.val
               /\ \A c \in Discovered : Browse(c).err \in {"ok", "ExpatError"}
       /\ (pc = "done" /\ pypi.status = 200 /\ result.kind = "raise")
            => /\ session[next].st = "exited"
               /\ SameOutcome(result, session[next].seen)
               /\ \/ Browse(classifiers[next]).err \notin {"ok", "ExpatError"}
                  \/ session[next].close \notin {"ok", "ExpatError", "Fault"}
       /\ (pc = "done" /\ pypi.status = 200
           /\ \E t \in 1..Len(classifiers) : session[t].seen.kind = "raise")
            => result.kind = "raise"

C9_Witness ==
    /\ AllPypyReturned
    /\ Len(classifiers) = 2
    /\ Browse(classifiers[1]).err = "ExpatError"
    /\ Browse(classifiers[2]).names = {Foo, bar}
    /\ manual_overrides.given /\ DOMAIN manual_overrides.table = {}
    /\ result.val = {foo, bar}

\* C10: every member of the set all_pypy_projects returns is a lowercased
\* name, whatever the override table.
C10_ResultLowercased ==
    AllPypyReturned => \A name \in result.val : name = lower(name)

====
